---- MODULE Spec2Model ----
(***************************************************************************)
(* A model of nlptest: the terminology index (create_terminology), the     *)
(* CoNLL dataset codec (ConllDataset.load_data / export_data) and the      *)
(* accuracy test family (transform / run of the six BaseAccuracy           *)
(* subclasses).  Each component has its own specification over the module  *)
(* variables; the variables of the other components stay idle.             *)
(***************************************************************************)
EXTENDS Integers, Sequences, FiniteSets, TLC

VARIABLES
    ner_data,      \* create_terminology: the rows (text, label) it is given
    term_pc,       \* "input" before the call, "done" after it
    term_result,   \* what create_terminology returned or raised
    file_content,  \* ConllDataset: the lines of the file at self._file_path
    codec_pc,      \* "file", "loaded", "exported", "reloaded"
    data,          \* what load_data returned or raised
    exported,      \* the lines export_data wrote to output_path, or its error
    reloaded,      \* what load_data returned for the exported file
    test_class,    \* accuracy tests: the subclass of BaseAccuracy under test
    params,        \* accuracy tests: the configuration, params["min_score"]
    true_labels,   \* accuracy tests: the true labels given to transform
    y_true,        \* accuracy tests: the true labels given to run
    y_pred,        \* accuracy tests: the predicted labels given to run
    samples,       \* the Samples the transforms have created, oldest first
    last,          \* the latest call: its operation and outcome
    orch_state,    \* orchestration: Configured, Validated, ..., Reported, or Failed
    requested,     \* orchestration: the requested test names
    output_format, \* orchestration: the requested metrics output format
    tasks,         \* orchestration: the run tasks created, "scheduled" or "done"
    orch_samples,  \* orchestration: the Sample list of every resolved test
    run_order,     \* orchestration: the accuracy tests whose task has run, in order
    model_calls,   \* orchestration: calls of the model capability so far
    aggregated,    \* orchestration: the metrics the aggregation computed
    returned,      \* orchestration: the report returned to the caller
    orch_err,      \* orchestration: the error raised to the caller
    handler_model, \* model handler: the object given to the constructor
    handler_pc,    \* model handler: "input" before the construction, "done" after
    handler        \* model handler: the attributes set, or the error raised

termVars == <<ner_data, term_pc, term_result>>
codecVars == <<file_content, codec_pc, data, exported, reloaded>>

accVars == <<test_class, params, true_labels, y_true, y_pred, samples, last>>

orchVars == <<orch_state, requested, output_format, tasks, orch_samples, run_order,
              model_calls, aggregated, returned, orch_err>>

handlerVars == <<handler_model, handler_pc, handler>>

vars == <<ner_data, term_pc, term_result, file_content, codec_pc, data, exported, reloaded,
          test_class, params, true_labels, y_true, y_pred, samples, last,
          orch_state, requested, output_format, tasks, orch_samples, run_order, model_calls,
          aggregated, returned, orch_err, handler_model, handler_pc, handler>>

(***************************************************************************)
(* Bounds                                                                  *)
(***************************************************************************)
MaxRows == 2        \* rows (sentences) of a corpus given to create_terminology
MaxTokens == 4      \* tokens of a corpus, all rows together
MaxLines == 5       \* lines of a CoNLL file given to load_data
MaxLabels == 2      \* length of the label sequences y_true and y_pred
MaxSamples == 2     \* Samples the transforms of one session create
MaxStages == 3      \* stages of a pipeline given to a model handler

(***************************************************************************)
(* Generic helpers                                                         *)
(***************************************************************************)
RECURSIVE SumTo(_, _)
SumTo(f, n) == IF n = 0 THEN 0 ELSE f[n] + SumTo(f, n - 1)

\* " ".join(items)
RECURSIVE Join(_)
Join(items) ==
    IF Len(items) = 0 THEN ""
    ELSE IF Len(items) = 1 THEN items[1]
    ELSE items[1] \o " " \o Join(Tail(items))

(***************************************************************************)
(* Terminology index: nlptest_redesign/nlptest/transform/utils.py          *)
(***************************************************************************)
\* A label "B-PER" is the record [tag |-> "B", type |-> "PER"]: tag is what
\* label.startswith tests, type is label[2:].  "O" has the empty type.
EntityTypes == {"PER", "LOC"}
OLabel == [tag |-> "O", type |-> ""]
IOBLabels == {[tag |-> t, type |-> e] : t \in {"B", "I"}, e \in EntityTypes} \cup {OLabel}

\* The words of a corpus; the k-th token of the corpus is Word(k), so a
\* token also tells the position it came from.
Vocab == <<"New", "York", "is", "Paris", "in", "France", "today">>
Word(k) == Vocab[((k - 1) % Len(Vocab)) + 1]

\* The python None used as ent_type and as a dictionary key.
NoneType == "None"

\* A row of ner_data: row.text.split(' ') is text, row.label is label.
RowOf(labels, from, n) ==
    [text  |-> [i \in 1..n |-> Word(from + i)],
     label |-> [i \in 1..n |-> labels[from + i]]]

\* The corpora drawn as inputs: 1..MaxRows rows, at most MaxTokens tokens in
\* all, one label per token.
NerDataInputs(maxRows, maxTokens) ==
    UNION { UNION { { [r \in 1..n |-> RowOf(labels, SumTo(lens, r - 1), lens[r])] :
                        labels \in [1..SumTo(lens, n) -> IOBLabels] } :
                    lens \in {l \in [1..n -> 0..maxTokens] : SumTo(l, n) <= maxTokens} } :
            n \in 1..maxRows }

\* terminology[ent_type].append(phrase) if the key holds a non-empty list,
\* else terminology[ent_type] = [phrase]
Commit(terminology, ent_type, chunk) ==
    IF ent_type \in DOMAIN terminology /\ Len(terminology[ent_type]) > 0
    THEN [terminology EXCEPT ![ent_type] = Append(@, Join(chunk))]
    ELSE [k \in (DOMAIN terminology) \cup {ent_type} |->
             IF k = ent_type THEN <<Join(chunk)>> ELSE terminology[k]]

\* `if chunk:` is false for None and for the empty list
Truthy(st) == ~st.chunk_none /\ Len(st.chunk) > 0

\* One iteration of the inner loop: the state st of the locals
\* (terminology, chunk, ent_type) after the token `tok` labelled `label`.
TermStep(st, tok, label) ==
    IF st.err # "none" THEN st
    ELSE IF label.tag = "B" THEN
        [st EXCEPT !.terminology = IF Truthy(st) THEN Commit(st.terminology, st.ent_type, st.chunk)
                                   ELSE st.terminology,
                   !.chunk = <<tok>>,
                   !.chunk_none = FALSE,
                   !.ent_type = label.type]
    ELSE IF label.tag = "I" THEN
        IF st.chunk_none
        THEN [st EXCEPT !.err = "AttributeError"]
        ELSE [st EXCEPT !.chunk = Append(st.chunk, tok)]
    ELSE
        [st EXCEPT !.terminology = IF Truthy(st) THEN Commit(st.terminology, st.ent_type, st.chunk)
                                   ELSE st.terminology,
                   !.chunk = <<>>,
                   !.chunk_none = TRUE,
                   !.ent_type = NoneType]

\* the inner loop over the labels of one row, from token i on
RECURSIVE TermRow(_, _, _)
TermRow(st, row, i) ==
    IF i > Len(row.label) THEN st
    ELSE TermRow(TermStep(st, row.text[i], row.label[i]), row, i + 1)

\* the outer loop over the rows, from row r on
RECURSIVE TermRows(_, _, _)
TermRows(st, rows, r) ==
    IF r > Len(rows) THEN st
    ELSE TermRows(TermRow(st, rows[r], 1), rows, r + 1)

\* create_terminology(ner_data): the returned dictionary, or the error raised
create_terminology(rows) ==
    LET st == TermRows([terminology |-> <<>>, chunk |-> <<>>, chunk_none |-> FALSE,
                        ent_type |-> NoneType, err |-> "none"], rows, 1)
    IN  [terminology |-> st.terminology, err |-> st.err]

NoTermResult == [terminology |-> <<>>, err |-> "none"]

TermInit ==
    /\ ner_data \in NerDataInputs(MaxRows, MaxTokens)
    /\ term_pc = "input"
    /\ term_result = NoTermResult

CallCreateTerminology ==
    /\ term_pc = "input"
    /\ term_result' = create_terminology(ner_data)
    /\ term_pc' = "done"
    /\ UNCHANGED ner_data

TermIdle ==
    /\ ner_data = <<>>
    /\ term_pc = "idle"
    /\ term_result = NoTermResult

(***************************************************************************)
(* Samples of the codec: Sample, NEROutput, NERPrediction as load_data      *)
(* builds them                                                             *)
(***************************************************************************)
\* An absent (None) field that holds a text is the empty sequence; an absent
\* result is the empty sequence too.
Absent == <<>>

\* NERPrediction.from_span(entity, word, start, end, doc_id, doc_name, pos_tag, chunk_tag)
NERPrediction(entity, word, start, end, doc_id, doc_name, pos_tag, chunk_tag) ==
    [entity |-> entity, span |-> [start |-> start, end |-> end, word |-> word],
     doc_id |-> doc_id, doc_name |-> doc_name, pos_tag |-> pos_tag, chunk_tag |-> chunk_tag]

\* Sample(original=..., expected_results=NEROutput(predictions=...)) as
\* load_data builds it, with test_case absent.  original and test_case are
\* kept as the words that split() gives.
NERSample(original, predictions) ==
    [is_sample |-> TRUE, original |-> original, test_case |-> Absent,
     expected_results |-> [predictions |-> predictions]]

\* the tuple ([''], ['']) that load_data appends for an empty document
EmptyDocTuple ==
    [is_sample |-> FALSE, original |-> <<>>, test_case |-> Absent,
     expected_results |-> [predictions |-> <<>>]]

(***************************************************************************)
(* Dataset codec: nlptest/datahandler/datasource.py                        *)
(***************************************************************************)
\* A file is the sequence of its lines.  A line is a document header
\* ("-DOCSTART- -X- -X- O": what the regular expression of load_data
\* matches), a blank line, or a token line "word pos chunk entity".
HeaderLine(name) == [kind |-> "hdr", word |-> name, pos |-> "", chunk |-> "", entity |-> ""]
BlankLine == [kind |-> "blank", word |-> "", pos |-> "", chunk |-> "", entity |-> ""]
TokenLine(word, pos, chunk, entity) ==
    [kind |-> "tok", word |-> word, pos |-> pos, chunk |-> chunk, entity |-> entity]

DocHeaders == {"-DOCSTART- -X- -X- O", "-DOCSTART- -Y- -Y- O"}
LineInputs ==
    {HeaderLine(h) : h \in DocHeaders}
        \cup {BlankLine, TokenLine("New", "NNP", "B-NP", "B-LOC"),
              TokenLine("York", "NNP", "I-NP", "I-LOC")}

FileInputs(maxLines) == UNION {[1..n -> LineInputs] : n \in 0..maxLines}

\* docs[:5]
MaxDocs == 5

\* A file of n documents, each a header line and one token line: the files
\* with as many documents as docs[:5] takes, and with one more.
RECURSIVE ManyDocsFile(_)
ManyDocsFile(n) ==
    IF n = 0 THEN <<>>
    ELSE ManyDocsFile(n - 1)
            \o <<HeaderLine("-DOCSTART- -X- -X- O"), TokenLine("New", "NNP", "B-NP", "B-LOC")>>

ManyDocsInputs == {ManyDocsFile(n) : n \in 1..(MaxDocs + 1)}

\* str.strip() of a text made of whole lines: the blank lines at both ends go
RECURSIVE LStrip(_)
LStrip(lines) ==
    IF Len(lines) > 0 /\ lines[1].kind = "blank" THEN LStrip(Tail(lines)) ELSE lines

RECURSIVE RStrip(_)
RStrip(lines) ==
    IF Len(lines) > 0 /\ lines[Len(lines)].kind = "blank"
    THEN RStrip(SubSeq(lines, 1, Len(lines) - 1)) ELSE lines

Strip(lines) == RStrip(LStrip(lines))

\* re.findall(r"-DOCSTART- \S+ \S+ O", content.strip())
RECURSIVE FindHeaders(_)
FindHeaders(lines) ==
    IF Len(lines) = 0 THEN <<>>
    ELSE IF lines[1].kind = "hdr" THEN <<lines[1].word>> \o FindHeaders(Tail(lines))
    ELSE FindHeaders(Tail(lines))

\* re.split(r"-DOCSTART- \S+ \S+ O", content.strip()) with the pieces that
\* are the empty string left out (`if i != ''`), each piece stripped.  A
\* piece between two headers holds at least the line break after the first
\* header, so only the piece before a header on the first line and the piece
\* after a header on the last line are the empty string.  `cur` is the piece
\* being read, `first` tells that no header was met yet.
RECURSIVE SplitDocs(_, _, _)
SplitDocs(lines, cur, first) ==
    IF Len(lines) = 0 THEN
        IF Len(cur) = 0 THEN <<>> ELSE <<Strip(cur)>>
    ELSE IF lines[1].kind = "hdr" THEN
        (IF first /\ Len(cur) = 0 THEN <<>> ELSE <<Strip(cur)>>)
            \o SplitDocs(Tail(lines), <<>>, FALSE)
    ELSE SplitDocs(Tail(lines), Append(cur, lines[1]), first)

\* doc.strip().split('\n\n'), each piece stripped: the sentences of a
\* document that has at least one token line.  One or two blank lines end a
\* sentence; a run of k >= 3 blank lines holds ((k + 1) \div 2) - 1 empty
\* pieces besides.  `run` counts the blank lines just read.
RECURSIVE EmptyPieces(_)
EmptyPieces(n) == IF n <= 0 THEN <<>> ELSE <<<<>>>> \o EmptyPieces(n - 1)

RECURSIVE SplitSentences(_, _, _)
SplitSentences(lines, cur, run) ==
    IF Len(lines) = 0 THEN <<cur>>
    ELSE IF lines[1].kind = "blank" THEN SplitSentences(Tail(lines), cur, run + 1)
    ELSE IF run = 0 THEN SplitSentences(Tail(lines), Append(cur, lines[1]), 0)
    ELSE <<cur>> \o EmptyPieces(((run + 1) \div 2) - 1)
             \o SplitSentences(Tail(lines), <<lines[1]>>, 0)

\* Faulty variant of NerLabels: the cursor does not count the white space
\* between two words.
RECURSIVE NerLabels_NoSpace(_, _, _, _, _)
NerLabels_NoSpace(tokens, i, cursor, d_id, doc_name) ==
    IF i > Len(tokens) THEN <<>>
    ELSE <<NERPrediction(tokens[i].entity, tokens[i].word, cursor,
                         cursor + Len(tokens[i].word), d_id, doc_name,
                         tokens[i].pos, tokens[i].chunk)>>
            \o NerLabels_NoSpace(tokens, i + 1, cursor + Len(tokens[i].word), d_id, doc_name)

\* The loop over token_list: the NERPredictions of one sentence, from the
\* token i on, with the cursor of the character offsets.
RECURSIVE NerLabels(_, _, _, _, _)
NerLabels(tokens, i, cursor, d_id, doc_name) ==
    IF i > Len(tokens) THEN <<>>
    ELSE <<NERPrediction(tokens[i].entity, tokens[i].word, cursor,
                         cursor + Len(tokens[i].word), d_id, doc_name,
                         tokens[i].pos, tokens[i].chunk)>>
            \o NerLabels(tokens, i + 1, cursor + Len(tokens[i].word) + 1, d_id, doc_name)

WordsOf(predictions) == [k \in 1..Len(predictions) |-> predictions[k].span.word]

\* The body of `for sent in sentences`: the Sample of one sentence.  An
\* empty piece has the token list [[]], and split[-1] raises IndexError;
\* docs_strings[d_id] raises IndexError when there are headers but fewer
\* than d_id + 1 of them.
SentenceFails(sent, d_id, docs_strings) ==
    \/ Len(sent) = 0
    \/ (Len(docs_strings) > 0 /\ d_id + 1 > Len(docs_strings))

SentenceSample(sent, d_id, docs_strings) ==
    LET doc_name == IF Len(docs_strings) > 0 THEN docs_strings[d_id + 1] ELSE ""
        ner_labels == NerLabels(sent, 1, 0, d_id, doc_name)
    IN  NERSample(WordsOf(ner_labels), ner_labels)

RECURSIVE LoadSentences(_, _, _, _)
LoadSentences(sentences, s, d_id, docs_strings) ==
    IF s > Len(sentences) THEN [data |-> <<>>, err |-> "none"]
    ELSE IF SentenceFails(sentences[s], d_id, docs_strings)
    THEN [data |-> <<>>, err |-> "IndexError"]
    ELSE LET rest == LoadSentences(sentences, s + 1, d_id, docs_strings)
         IN  IF rest.err # "none" THEN rest
             ELSE [data |-> <<SentenceSample(sentences[s], d_id, docs_strings)>> \o rest.data,
                   err |-> "none"]

\* the loop `for d_id, doc in enumerate(docs[:5])`, from the document d on
\* (d is d_id + 1)
RECURSIVE LoadDocs(_, _, _)
LoadDocs(docs, d, docs_strings) ==
    IF d > Len(docs) THEN [data |-> <<>>, err |-> "none"]
    ELSE LET here == IF Len(docs[d]) = 0
                     THEN [data |-> <<EmptyDocTuple>>, err |-> "none"]
                     ELSE LoadSentences(SplitSentences(docs[d], <<>>, 0), 1, d - 1, docs_strings)
             rest == LoadDocs(docs, d + 1, docs_strings)
         IN  IF here.err # "none" THEN here
             ELSE IF rest.err # "none" THEN rest
             ELSE [data |-> here.data \o rest.data, err |-> "none"]

\* ConllDataset.load_data on a file with the given lines: the list it
\* returns, or the error it raises
load_data(content) ==
    LET stripped == Strip(content)
        docs_strings == FindHeaders(stripped)
        docs == SplitDocs(stripped, <<>>, TRUE)
        first5 == SubSeq(docs, 1, IF Len(docs) < MaxDocs THEN Len(docs) ELSE MaxDocs)
    IN  LoadDocs(first5, 1, docs_strings)

\* str.lower() of the words that occur in files and test cases
Lower(w) ==
    CASE w \in {"New", "NEW", "new"} -> "new"
      [] w \in {"York", "YORK", "york"} -> "york"
      [] OTHER -> w

\* list.index(item): the first position of item, which is in items
RECURSIVE IndexOf(_, _, _)
IndexOf(items, item, k) == IF items[k] = item THEN k ELSE IndexOf(items, item, k + 1)

\* list.pop(k)
Pop(items, k) == SubSeq(items, 1, k - 1) \o SubSeq(items, k + 1, Len(items))

\* f"{j.doc_name}\n\n": the line of the document name and an empty line
HeaderText(doc_name) ==
    <<IF doc_name = "" THEN BlankLine ELSE HeaderLine(doc_name), BlankLine>>

\* The locals of export_data that outlive a Sample: temp_id (None is
\* NoDocId), the text written so far, and the loop variable j, which the
\* test_case branch reads also when it has not assigned it.
NoDocId == 0 - 1
NoPrediction == NERPrediction("", "", 0, 0, NoDocId, "", "", "")
ExportStart == [temp_id |-> NoDocId, text |-> <<>>, j |-> NoPrediction, j_bound |-> FALSE,
                err |-> "none"]

\* `for j in i.expected_results.predictions` of the branch without test_case
RECURSIVE ExportOriginal(_, _, _)
ExportOriginal(st, predictions, k) ==
    IF k > Len(predictions) THEN st
    ELSE LET j == predictions[k]
             next == IF st.temp_id # j.doc_id
                     THEN [st EXCEPT !.text = @ \o HeaderText(j.doc_name),
                                     !.temp_id = j.doc_id,
                                     !.j = j, !.j_bound = TRUE]
                     ELSE [st EXCEPT !.text = Append(@, TokenLine(j.span.word, j.pos_tag,
                                                                  j.chunk_tag, j.entity)),
                                     !.j = j, !.j_bound = TRUE]
         IN  ExportOriginal(next, predictions, k + 1)

\* `for jdx, item in enumerate(norm_test_case_items)` of the test_case
\* branch; norm_original_items shrinks by the pops
RECURSIVE ExportTestCase(_, _, _, _, _)
ExportTestCase(st, sample, test_case_items, norm_original_items, jdx) ==
    IF st.err # "none" \/ jdx > Len(test_case_items) THEN st
    ELSE LET item == Lower(test_case_items[jdx])
             found == \E k \in 1..Len(norm_original_items) : norm_original_items[k] = item
             oitem_index == IndexOf(norm_original_items, item, 1)
             predictions == sample.expected_results.predictions
         IN  IF found THEN
                 IF oitem_index > Len(predictions) THEN [st EXCEPT !.err = "IndexError"]
                 ELSE LET j == predictions[oitem_index]
                          next == IF st.temp_id # j.doc_id /\ jdx = 1
                                  THEN [st EXCEPT !.text = @ \o HeaderText(j.doc_name),
                                                  !.temp_id = j.doc_id,
                                                  !.j = j, !.j_bound = TRUE]
                                  ELSE [st EXCEPT !.text = Append(@, TokenLine(test_case_items[jdx],
                                                        j.pos_tag, j.chunk_tag, j.entity)),
                                                  !.j = j, !.j_bound = TRUE]
                      IN  ExportTestCase(next, sample, test_case_items,
                                         Pop(norm_original_items, oitem_index), jdx + 1)
             ELSE IF ~st.j_bound THEN [st EXCEPT !.err = "UnboundLocalError"]
             ELSE ExportTestCase(
                      [st EXCEPT !.text = Append(@, TokenLine(test_case_items[jdx],
                                                  st.j.pos_tag, st.j.chunk_tag, "O"))],
                      sample, test_case_items, norm_original_items, jdx + 1)

\* the body of `for i in data`
ExportSample(st, i) ==
    IF st.err # "none" THEN st
    ELSE IF ~i.is_sample THEN [st EXCEPT !.err = "AttributeError"]
    ELSE LET body == IF Len(i.test_case) > 0
                     THEN ExportTestCase(st, i, i.test_case,
                                         [k \in 1..Len(i.original) |-> Lower(i.original[k])], 1)
                     ELSE ExportOriginal(st, i.expected_results.predictions, 1)
         IN  IF body.err # "none" THEN body
             ELSE [body EXCEPT !.text = Append(@, BlankLine)]

RECURSIVE ExportLoop(_, _, _)
ExportLoop(st, items, n) ==
    IF n > Len(items) THEN st ELSE ExportLoop(ExportSample(st, items[n]), items, n + 1)

\* ConllDataset.export_data(data, output_path): the lines written to
\* output_path, or the error raised before anything is written
export_data(items) ==
    LET st == ExportLoop(ExportStart, items, 1)
    IN  [text |-> IF st.err = "none" THEN st.text ELSE <<>>, err |-> st.err]

NoData == [data |-> <<>>, err |-> "none"]
NoText == [text |-> <<>>, err |-> "none"]

CodecInit ==
    /\ file_content \in FileInputs(MaxLines) \cup ManyDocsInputs
    /\ codec_pc = "file"
    /\ data = NoData
    /\ exported = NoText
    /\ reloaded = NoData

\* DataFactory.load: load_data on the file
LoadData ==
    /\ codec_pc = "file"
    /\ data' = load_data(file_content)
    /\ codec_pc' = "loaded"
    /\ UNCHANGED <<file_content, exported, reloaded>>

\* DataFactory.export: export_data of the loaded samples, when load_data
\* returned them
ExportData ==
    /\ codec_pc = "loaded"
    /\ data.err = "none"
    /\ exported' = export_data(data.data)
    /\ codec_pc' = "exported"
    /\ UNCHANGED <<file_content, data, reloaded>>

\* load_data on the file that export_data wrote
ReloadData ==
    /\ codec_pc = "exported"
    /\ exported.err = "none"
    /\ reloaded' = load_data(exported.text)
    /\ codec_pc' = "reloaded"
    /\ UNCHANGED <<file_content, data, exported>>

\* The case perturbations (uppercase, lowercase, titlecase): the rewrite of
\* one word of the corpus
CasePerturbations == {"uppercase", "lowercase", "titlecase"}
CaseRewrite(kind, w) ==
    CASE kind = "uppercase" -> (IF Lower(w) = "new" THEN "NEW" ELSE "YORK")
      [] kind = "lowercase" -> Lower(w)
      [] kind = "titlecase" -> (IF Lower(w) = "new" THEN "New" ELSE "York")

\* transform of a case perturbation: test_case is the rewrite of original
PerturbSample(kind, sample) ==
    [sample EXCEPT !.test_case = [k \in 1..Len(sample.original) |->
                                     CaseRewrite(kind, sample.original[k])]]

\* a case perturbation of the loaded corpus, when every element of it is a
\* Sample
PerturbData ==
    /\ codec_pc = "loaded"
    /\ data.err = "none"
    /\ Len(data.data) > 0
    /\ \A k \in 1..Len(data.data) : data.data[k].is_sample
    /\ \E kind \in CasePerturbations :
          data' = [data EXCEPT !.data = [k \in 1..Len(data.data) |->
                                            PerturbSample(kind, data.data[k])]]
    /\ codec_pc' = "perturbed"
    /\ UNCHANGED <<file_content, exported, reloaded>>

\* export_data of the perturbed Samples
ExportPerturbed ==
    /\ codec_pc = "perturbed"
    /\ exported' = export_data(data.data)
    /\ codec_pc' = "perturbed_exported"
    /\ UNCHANGED <<file_content, data, reloaded>>

CodecIdle ==
    /\ file_content = <<>>
    /\ codec_pc = "idle"
    /\ data = NoData
    /\ exported = NoText
    /\ reloaded = NoData

(***************************************************************************)
(* Accuracy test family: nlptest/transform/accuracy.py                     *)
(***************************************************************************)
\* The subclasses of BaseAccuracy and their alias_name.
PerClassTests == {"MinPrecisionScore", "MinRecallScore", "MinF1Score"}
AggregateTests == {"MinMicroF1Score", "MinMacroF1Score", "MinWeightedF1Score"}
AccuracyTests == PerClassTests \cup AggregateTests

alias_name ==
    [cls \in AccuracyTests |->
        CASE cls = "MinPrecisionScore" -> "min_precision_score"
          [] cls = "MinRecallScore" -> "min_recall_score"
          [] cls = "MinF1Score" -> "min_f1_score"
          [] cls = "MinMicroF1Score" -> "min_micro_f1_score"
          [] cls = "MinMacroF1Score" -> "min_macro_f1_score"
          [] cls = "MinWeightedF1Score" -> "min_weighted_f1_score"]

\* the test_type literal that the transform of the class writes
TestTypeOf(cls) ==
    CASE cls = "MinPrecisionScore" -> "min_precision_score"
      [] cls = "MinRecallScore" -> "min_recall_score"
      [] cls = "MinF1Score" -> "min_f1_score"
      [] cls = "MinMicroF1Score" -> "min_micro_f1_score"
      [] cls = "MinMacroF1Score" -> "min__macro_f1_score"
      [] cls = "MinWeightedF1Score" -> "min_weighted_f1_score"

\* the test_case literal of the aggregate tests, also the `average` of run
AverageOf(cls) ==
    CASE cls = "MinMicroF1Score" -> "micro"
      [] cls = "MinMacroF1Score" -> "macro"
      [] cls = "MinWeightedF1Score" -> "weighted"

\* the key of the report entry that the run of a per-class test copies
MetricOf(cls) ==
    CASE cls = "MinPrecisionScore" -> "precision"
      [] cls = "MinRecallScore" -> "recall"
      [] cls = "MinF1Score" -> "f1-score"

\* The labels of the data, and the values of params["min_score"]: a float
\* (in thousandths), a dict label -> float, or a malformed value (an int, a
\* str).  `kind` is what isinstance tells.
Labels == {"A", "B"}
Scores == {500, 800}
Float(x) == [kind |-> "float", v |-> x, m |-> <<>>]
Dict(m) == [kind |-> "dict", v |-> 0, m |-> m]
Malformed == {[kind |-> "int", v |-> 1, m |-> <<>>], [kind |-> "str", v |-> 0, m |-> <<>>]}
Floats == {Float(x) : x \in Scores}
Dicts == UNION {{Dict(m) : m \in [K -> Scores]} : K \in SUBSET Labels}
MinScoreInputs == Floats \cup Dicts \cup Malformed

LabelSeqs == UNION {[1..n -> Labels] : n \in 0..MaxLabels}
SetOf(seq) == {seq[k] : k \in 1..Len(seq)}

\* the orders in which python may iterate over the set `labels`
Orders(labels) ==
    {o \in [1..Cardinality(labels) -> labels] : SetOf(o) = labels}

\* MinScoreOutput(min_score=...)
MinScoreOutput(min_score) == [min_score |-> min_score]

\* Sample(original=, category=, test_type=, test_case=, expected_results=):
\* a new Sample has no actual_results and is pending.
Sample(original, category, test_type, test_case, expected_results) ==
    [original |-> original, category |-> category, test_type |-> test_type,
     test_case |-> test_case, expected_results |-> expected_results,
     actual_results |-> Absent, state |-> "pending"]

\* Faulty variant of ThresholdSamples: a label that the mapping leaves out is given
\* the threshold 0 instead of being skipped.
RECURSIVE ThresholdSamples_Defaulted(_, _, _, _)
ThresholdSamples_Defaulted(cls, min_scores, order, k) ==
    IF k > Len(order) THEN <<>>
    ELSE <<Sample("-", "accuracy", TestTypeOf(cls), order[k],
                  MinScoreOutput(Float(IF order[k] \in DOMAIN min_scores
                                       THEN min_scores[order[k]] ELSE 0)))>>
            \o ThresholdSamples_Defaulted(cls, min_scores, order, k + 1)

\* The loop `for k in labels` of the per-class transforms, in the iteration
\* order `order`, from its k-th label on.
RECURSIVE ThresholdSamples(_, _, _, _)
ThresholdSamples(cls, min_scores, order, k) ==
    IF k > Len(order) THEN <<>>
    ELSE IF order[k] \notin DOMAIN min_scores
    THEN ThresholdSamples(cls, min_scores, order, k + 1)
    ELSE <<Sample("-", "accuracy", TestTypeOf(cls), order[k],
                  MinScoreOutput(Float(min_scores[order[k]])))>>
            \o ThresholdSamples(cls, min_scores, order, k + 1)

\* Faulty variant of PerClassTransform: the float min_score reaches only the first
\* label that the loop visits.
PerClassTransform_FloatFirstLabel(cls, yt, min_score, order) ==
    IF min_score.kind = "dict"
    THEN [ret |-> ThresholdSamples(cls, min_score.m, order, 1), err |-> "none"]
    ELSE IF min_score.kind = "float"
    THEN [ret |-> ThresholdSamples(cls, [l \in {order[k] : k \in 1..(IF Len(order) > 0 THEN 1 ELSE 0)} |-> min_score.v],
                                   order, 1),
          err |-> "none"]
    ELSE IF SetOf(yt) = {} THEN [ret |-> <<>>, err |-> "none"]
    ELSE [ret |-> <<>>, err |-> "UnboundLocalError"]

\* MinPrecisionScore.transform, MinRecallScore.transform, MinF1Score.transform:
\* the list returned, or the error raised.  With a min_score that is neither
\* a dict nor a float, min_scores is never assigned and the first iteration
\* of the loop raises UnboundLocalError.
PerClassTransform(cls, yt, min_score, order) ==
    LET labels == SetOf(yt)
    IN  IF min_score.kind = "dict"
        THEN [ret |-> ThresholdSamples(cls, min_score.m, order, 1), err |-> "none"]
        ELSE IF min_score.kind = "float"
        THEN [ret |-> ThresholdSamples(cls, [l \in labels |-> min_score.v], order, 1),
              err |-> "none"]
        ELSE IF labels = {} THEN [ret |-> <<>>, err |-> "none"]
        ELSE [ret |-> <<>>, err |-> "UnboundLocalError"]

\* MinMicroF1Score.transform, MinMacroF1Score.transform,
\* MinWeightedF1Score.transform
AggregateTransform(cls, yt, min_score) ==
    [ret |-> <<Sample("-", "accuracy", TestTypeOf(cls), AverageOf(cls),
                      MinScoreOutput(min_score))>>,
     err |-> "none"]

transform(cls, yt, min_score, order) ==
    IF cls \in PerClassTests THEN PerClassTransform(cls, yt, min_score, order)
    ELSE AggregateTransform(cls, yt, min_score)

\* sklearn's counts for one label: true positives, false positives, false
\* negatives and support
Count(yt, yp, P(_, _)) == Cardinality({k \in 1..Len(yt) : P(yt[k], yp[k])})
TP(yt, yp, l) == Count(yt, yp, LAMBDA t, p : t = l /\ p = l)
FP(yt, yp, l) == Count(yt, yp, LAMBDA t, p : t # l /\ p = l)
FN(yt, yp, l) == Count(yt, yp, LAMBDA t, p : t = l /\ p # l)
Support(yt, yp, l) == Count(yt, yp, LAMBDA t, p : t = l)

\* a ratio in thousandths, 0 when the denominator is 0 (zero_division=0)
Ratio(num, den) == IF den = 0 THEN 0 ELSE (num * 1000) \div den

\* classification_report(y_true, y_pred, output_dict=True, zero_division=0)
\* after the pops of "accuracy", "macro avg" and "weighted avg": one entry
\* for every label of y_true or y_pred
classification_report(yt, yp) ==
    [l \in SetOf(yt) \cup SetOf(yp) |->
        [precision |-> Ratio(TP(yt, yp, l), TP(yt, yp, l) + FP(yt, yp, l)),
         recall |-> Ratio(TP(yt, yp, l), TP(yt, yp, l) + FN(yt, yp, l)),
         f1 |-> Ratio(2 * TP(yt, yp, l), 2 * TP(yt, yp, l) + FP(yt, yp, l) + FN(yt, yp, l)),
         support |-> Support(yt, yp, l)]]

ReportValue(entry, metric) ==
    CASE metric = "precision" -> entry.precision
      [] metric = "recall" -> entry.recall
      [] metric = "f1-score" -> entry.f1

RECURSIVE SumOver(_, _)
SumOver(S, f) ==
    IF S = {} THEN 0
    ELSE LET x == CHOOSE y \in S : TRUE IN f[x] + SumOver(S \ {x}, f)

\* f1_score(y_true, y_pred, average=..., zero_division=0)
f1_score(yt, yp, average) ==
    LET report == classification_report(yt, yp)
        ls == DOMAIN report
    IN  CASE average = "micro" ->
                 Ratio(SumOver(ls, [l \in ls |-> TP(yt, yp, l)]), Len(yt))
          [] average = "macro" ->
                 IF ls = {} THEN 0
                 ELSE SumOver(ls, [l \in ls |-> report[l].f1]) \div Cardinality(ls)
          [] average = "weighted" ->
                 IF Len(yt) = 0 THEN 0
                 ELSE SumOver(ls, [l \in ls |-> report[l].support * report[l].f1]) \div Len(yt)

\* Faulty variant of PerClassRunSample: a label that the report lacks is not skipped
\* but marked done with the metric 0.
PerClassRunSample_NoSkip(cls, sample, df_metrics) ==
    [sample EXCEPT
        !.actual_results =
            MinScoreOutput(IF sample.test_case \in DOMAIN df_metrics
                             THEN ReportValue(df_metrics[sample.test_case], MetricOf(cls))
                             ELSE 0),
        !.state = "done"]

\* Faulty variant of PerClassRunSample: the metric is written over expected_results
\* as well.
PerClassRunSample_IntoExpected(cls, sample, df_metrics) ==
    IF sample.test_case \notin DOMAIN df_metrics THEN sample
    ELSE [sample EXCEPT
             !.expected_results =
                 MinScoreOutput(Float(ReportValue(df_metrics[sample.test_case], MetricOf(cls)))),
             !.actual_results =
                 MinScoreOutput(ReportValue(df_metrics[sample.test_case], MetricOf(cls))),
             !.state = "done"]

\* the body of `for sample in sample_list` of the per-class runs
PerClassRunSample(cls, sample, df_metrics) ==
    IF sample.test_case \notin DOMAIN df_metrics THEN sample
    ELSE [sample EXCEPT
             !.actual_results =
                 MinScoreOutput(ReportValue(df_metrics[sample.test_case], MetricOf(cls))),
             !.state = "done"]

\* Faulty variant of AggregateRunSample: actual_results is set but the state is not.
AggregateRunSample_NoState(cls, sample, f1) ==
    [sample EXCEPT !.actual_results = MinScoreOutput(f1)]

\* Faulty variant of AggregateRunSample: the skip of the per-class runs is copied, and
\* "micro", "macro", "weighted" are no labels of a report.
AggregateRunSample_CopiedSkip(cls, sample, f1) ==
    IF sample.test_case \in {"micro", "macro", "weighted"} THEN sample
    ELSE [sample EXCEPT !.actual_results = MinScoreOutput(f1), !.state = "done"]

\* the body of `for sample in sample_list` of the aggregate runs
AggregateRunSample(cls, sample, f1) ==
    [sample EXCEPT !.actual_results = MinScoreOutput(f1), !.state = "done"]

\* run(sample_list, y_true, y_pred) of the class, on the Sample `sample`
RunSample(cls, sample, yt, yp) ==
    IF cls \in PerClassTests
    THEN PerClassRunSample(cls, sample, classification_report(yt, yp))
    ELSE AggregateRunSample(cls, sample, f1_score(yt, yp, AverageOf(cls)))

NoCall == [op |-> "none", err |-> "none", n |-> 0]

\* The sessions drawn as inputs.  A session is about one test class.  The
\* configuration takes every value with the run data DefaultData, and the
\* run data take every value with the configuration DefaultParams; the true
\* labels given to transform take every value with both.
DefaultParams == [min_score |-> Float(800)]
DefaultData == [y_true |-> <<"A", "A">>, y_pred |-> <<"A", "A">>]

AccInit ==
    /\ test_class \in AccuracyTests
    /\ params \in {[min_score |-> x] : x \in MinScoreInputs}
    /\ true_labels \in LabelSeqs
    /\ \E n \in 1..MaxLabels :
          /\ y_true \in [1..n -> Labels]
          /\ y_pred \in [1..n -> Labels]
    /\ \/ params = DefaultParams
       \/ (y_true = DefaultData.y_true /\ y_pred = DefaultData.y_pred)
    /\ samples = <<>>
    /\ last = NoCall

\* test_class.transform(true_labels, params), python iterating over the
\* label set in the order `order`: the returned Samples join the ones
\* created so far; last.n tells how many were returned
Transform(order) ==
    LET res == transform(test_class, true_labels, params.min_score, order)
    IN  /\ Len(samples) + Len(res.ret) <= MaxSamples
        /\ samples' = samples \o res.ret
        /\ last' = [op |-> "transform", err |-> res.err, n |-> Len(res.ret)]
        /\ UNCHANGED <<test_class, params, true_labels, y_true, y_pred>>

\* await test_class.run(sample_list, y_true, y_pred) with the Samples created
\* so far as sample_list
Run ==
    /\ Len(samples) > 0
    /\ samples' = [i \in 1..Len(samples) |->
                      RunSample(test_class, samples[i], y_true, y_pred)]
    /\ last' = [op |-> "run", err |-> "none", n |-> Len(samples)]
    /\ UNCHANGED <<test_class, params, true_labels, y_true, y_pred>>

PerClassTransformCall ==
    /\ test_class \in PerClassTests
    /\ \E order \in Orders(SetOf(true_labels)) : Transform(order)

AggregateTransformCall ==
    /\ test_class \in AggregateTests
    /\ Transform(<<>>)

PerClassRunCall == test_class \in PerClassTests /\ Run

AggregateRunCall == test_class \in AggregateTests /\ Run

AccIdle ==
    /\ test_class = ""
    /\ params = [min_score |-> Float(0)]
    /\ true_labels = <<>>
    /\ y_true = <<>>
    /\ y_pred = <<>>
    /\ samples = <<>>
    /\ last = NoCall

(***************************************************************************)
(* Orchestration engine: validate, transform, run, aggregate, report.      *)
(* The engine itself is designed in sections 4.4, 4.5 and 5 of the         *)
(* specification; the accuracy tests it drives and BaseAccuracy.async_run  *)
(* are those of accuracy.py.                                               *)
(***************************************************************************)
\* _DEFAULT_PERTURBATIONS
DEFAULT_PERTURBATIONS ==
    <<"uppercase", "lowercase", "titlecase", "add_punctuation", "strip_punctuation",
      "add_typo", "american_to_british", "add_context", "add_contractions",
      "swap_entities", "swap_cohyponyms">>

RobustnessTests == SetOf(DEFAULT_PERTURBATIONS)

\* the accuracy classes in the order of their declaration
AccuracyOrder ==
    <<"MinPrecisionScore", "MinRecallScore", "MinF1Score",
      "MinMicroF1Score", "MinMacroF1Score", "MinWeightedF1Score">>

\* Test registry: the names of the perturbations and the alias_name of every
\* accuracy class, in the order in which the engine walks them.
RegistryOrder ==
    DEFAULT_PERTURBATIONS \o [i \in 1..Len(AccuracyOrder) |-> alias_name[AccuracyOrder[i]]]

Registry == SetOf(RegistryOrder)

\* the accuracy class registered under a name
ClassOf(name) == CHOOSE cls \in AccuracyTests : alias_name[cls] = name

IsAccuracy(name) == \E cls \in AccuracyTests : alias_name[cls] = name

\* the enumerated tokens of metrics_output_format
OutputFormats == {"dictionary", "dataframe"}

\* Faulty variant of Valid: the output format is looked at only when the
\* metrics are formatted, after the run.
Valid_NamesOnly(names, format) == names \subseteq Registry

\* resolve(requested_test_names) and validate_output_format(format)
Valid(names, format) == names \subseteq Registry /\ format \in OutputFormats

\* The labeled corpus of a run: one sentence, and the model capability
\* predict(text), which knows the sentence as it is written in the corpus.
CorpusText == "New York"
CorpusLabels == <<"B-LOC", "I-LOC">>
NEROutput(predictions) == [predictions |-> predictions]
predict(text) ==
    IF text = CorpusText THEN NEROutput(CorpusLabels) ELSE NEROutput(<<"O", "O">>)

\* the text a perturbation makes of `text`; a perturbation without a
\* candidate leaves the text as it is
Perturb(name, text) ==
    CASE name = "uppercase" -> "NEW YORK"
      [] name = "lowercase" -> "new york"
      [] name = "add_punctuation" -> text \o "."
      [] OTHER -> text

\* transform of the robustness test `name` on the corpus
RobustnessTransform(name) ==
    <<[Sample(CorpusText, "robustness", name, Perturb(name, CorpusText),
              NEROutput(CorpusLabels))
          EXCEPT !.category = "robustness"]>>

\* run of a robustness test on one Sample: one call of the model
RobustnessRunSample(sample) ==
    [sample EXCEPT !.actual_results = predict(sample.test_case), !.state = "done"]

\* Transform phase of one resolved test
TestTransform(name, order) ==
    IF IsAccuracy(name)
    THEN transform(ClassOf(name), y_true, params.min_score, order).ret
    ELSE RobustnessTransform(name)

\* the run phase of the test `name` on the Sample list `list`
TestRun(name, list) ==
    [i \in 1..Len(list) |->
        IF IsAccuracy(name) THEN RunSample(ClassOf(name), list[i], y_true, y_pred)
        ELSE RobustnessRunSample(list[i])]

\* the model calls of the run phase of `name` on `list`
CallsOf(name, list) == IF IsAccuracy(name) THEN 0 ELSE Len(list)

\* Faulty variant of AfterTask: the tasks are given one Sample list that
\* they share, so the run of `name` writes the Samples of every test.
AfterTask_Shared(name, lists) ==
    [t \in DOMAIN lists |-> TestRun(name, lists[t])]

\* the Sample lists after the task of `name` has run: the task writes the
\* Samples of its own list
AfterTask(name, lists) == [lists EXCEPT ![name] = TestRun(name, lists[name])]

\* the requested tests in registry order, and the next one without a task
RECURSIVE NextUnscheduled(_, _, _)
NextUnscheduled(names, created, k) ==
    IF k > Len(RegistryOrder) THEN ""
    ELSE IF RegistryOrder[k] \in names /\ RegistryOrder[k] \notin created
    THEN RegistryOrder[k]
    ELSE NextUnscheduled(names, created, k + 1)

\* pass condition of a Sample that has run
Passed(sample) ==
    IF sample.category = "accuracy"
    THEN sample.actual_results.min_score >= sample.expected_results.min_score.v
    ELSE sample.actual_results = sample.expected_results

\* all Samples of the run, test after test
RECURSIVE AllSamples(_, _)
AllSamples(lists, k) ==
    IF k > Len(RegistryOrder) THEN <<>>
    ELSE (IF RegistryOrder[k] \in DOMAIN lists THEN lists[RegistryOrder[k]] ELSE <<>>)
            \o AllSamples(lists, k + 1)

\* the summary of one test type: the Samples that ran, and those that passed;
\* a pending Sample (soft skip) is left out
Summary(all, name) ==
    LET ran == {i \in 1..Len(all) : all[i].test_type = name /\ all[i].state # "pending"}
    IN  [total |-> Cardinality(ran),
         passed |-> Cardinality({i \in ran : Passed(all[i])})]

\* Faulty variant of Metrics: the entries are the test types found on the
\* Samples.
Metrics_BySampleType(names, lists) ==
    LET all == AllSamples(lists, 1)
    IN  [name \in {all[i].test_type : i \in 1..Len(all)} |-> Summary(all, name)]

\* metrics: test_type -> summary, one entry per requested test type
Metrics(names, lists) ==
    [name \in names |-> Summary(AllSamples(lists, 1), name)]

\* comparison_df: one row per Sample
ComparisonDf(lists) ==
    LET all == AllSamples(lists, 1)
    IN  [i \in 1..Len(all) |->
            [test_type |-> all[i].test_type, original |-> all[i].original,
             test_case |-> all[i].test_case, expected |-> all[i].expected_results,
             actual |-> all[i].actual_results,
             pass |-> IF all[i].state = "pending" THEN "skipped"
                      ELSE IF Passed(all[i]) THEN "pass" ELSE "fail"]]

\* the report assembled from the aggregation
Report(m, lists) ==
    [metrics |-> m, comparison_df |-> ComparisonDf(lists), test_details |-> lists]

\* The requests drawn as inputs: the default configuration (no test names
\* given: every default perturbation), and the selections of RequestNames.
RequestNames ==
    {"uppercase", "min_precision_score", "min_micro_f1_score", "min_macro_f1_score",
     "invalid"}
RequestInputs == {RobustnessTests} \cup ((SUBSET RequestNames) \ {{}})
FormatInputs == OutputFormats \cup {"invalid"}

OrchInit ==
    /\ orch_state = "Configured"
    /\ requested \in RequestInputs
    /\ output_format \in FormatInputs
    /\ params = DefaultParams
    /\ \E n \in 1..MaxLabels :
          /\ y_true \in [1..n -> Labels]
          /\ y_pred \in [1..n -> Labels]
    /\ \/ (y_true = DefaultData.y_true /\ y_pred = DefaultData.y_pred)
       \/ (\A name \in requested : IsAccuracy(name)) /\ output_format = "dictionary"
    /\ test_class = ""
    /\ true_labels = <<>>
    /\ samples = <<>>
    /\ last = NoCall
    /\ tasks = <<>>
    /\ orch_samples = <<>>
    /\ run_order = <<>>
    /\ model_calls = 0
    /\ aggregated = Absent
    /\ returned = Absent
    /\ orch_err = "none"

orchData == <<requested, output_format, accVars>>

\* 1. Validate: the requested names and the output format are accepted
ValidateOk ==
    /\ orch_state = "Configured"
    /\ Valid(requested, output_format)
    /\ orch_state' = "Validated"
    /\ UNCHANGED <<tasks, orch_samples, run_order, model_calls, aggregated, returned,
                 orch_err, orchData>>

\* 1. Validate: a configuration error aborts the run
ValidateFail ==
    /\ orch_state = "Configured"
    /\ ~Valid(requested, output_format)
    /\ orch_state' = "Failed"
    /\ orch_err' = "ValueError"
    /\ UNCHANGED <<tasks, orch_samples, run_order, model_calls, aggregated, returned, orchData>>

\* 2. Transform: every resolved test generates its Samples, synchronously
TransformAll ==
    /\ orch_state = "Validated"
    /\ \E order \in Orders(SetOf(y_true)) :
          orch_samples' = [name \in requested |-> TestTransform(name, order)]
    /\ orch_state' = "Transformed"
    /\ UNCHANGED <<tasks, run_order, model_calls, aggregated, returned,
                 orch_err, orchData>>

\* 3. Run, fan-out: await cls.async_run(sample_list, y_true, y_pred) for the
\* next resolved test; asyncio.create_task schedules its run and async_run
\* returns the task, which has not run yet
AsyncRun ==
    /\ orch_state \in {"Transformed", "Running"}
    /\ LET name == NextUnscheduled(requested, DOMAIN tasks, 1)
       IN  /\ name # ""
           /\ tasks' = [t \in (DOMAIN tasks) \cup {name} |->
                           IF t = name THEN "scheduled" ELSE tasks[t]]
    /\ orch_state' = "Running"
    /\ UNCHANGED <<orch_samples, run_order, model_calls, aggregated, returned,
                 orch_err, orchData>>

\* 3. Run: the event loop runs one scheduled task; cls.run has no await in
\* its body, so it runs from its start to its return
RunTask ==
    /\ orch_state = "Running"
    /\ \E name \in DOMAIN tasks :
          /\ tasks[name] = "scheduled"
          /\ orch_samples' = AfterTask(name, orch_samples)
          /\ model_calls' = model_calls + CallsOf(name, orch_samples[name])
          /\ run_order' = IF IsAccuracy(name) THEN Append(run_order, name) ELSE run_order
          /\ tasks' = [tasks EXCEPT ![name] = "done"]
    /\ UNCHANGED <<orch_state, aggregated, returned, orch_err, orchData>>

\* Faulty variant of Joined: the return of async_run is taken as the
\* completion of the task.
Joined_Created(names, created) == DOMAIN created = names

\* the join: a task has been created for every resolved test and every
\* created task has completed
Joined(names, created) ==
    /\ DOMAIN created = names
    /\ \A name \in DOMAIN created : created[name] = "done"

\* 4. Aggregate, fan-in: after the join
Aggregate ==
    /\ orch_state = "Running"
    /\ Joined(requested, tasks)
    /\ aggregated' = Metrics(requested, orch_samples)
    /\ orch_state' = "Aggregated"
    /\ UNCHANGED <<tasks, orch_samples, run_order, model_calls, returned,
                 orch_err, orchData>>

\* 5. Report
ReportOut ==
    /\ orch_state = "Aggregated"
    /\ returned' = Report(aggregated, orch_samples)
    /\ orch_state' = "Reported"
    /\ UNCHANGED <<tasks, orch_samples, run_order, model_calls, aggregated,
                 orch_err, orchData>>

OrchIdle ==
    /\ orch_state = "idle"
    /\ requested = {}
    /\ output_format = ""
    /\ tasks = <<>>
    /\ orch_samples = <<>>
    /\ run_order = <<>>
    /\ model_calls = 0
    /\ aggregated = Absent
    /\ returned = Absent
    /\ orch_err = "none"

(***************************************************************************)
(* Model handler: nlptest/modelhandler/jsl_modelhandler.py                 *)
(***************************************************************************)
\* The classes of the objects given as `model`; a str stands for any object
\* that is no pipeline.
PipelineTypes == {"NLUPipeline", "PretrainedPipeline", "LightPipeline", "PipelineModel"}
ModelTypes == PipelineTypes \cup {"str"}

\* SUPPORTED_SPARKNLP_CLASSIFERS (two of its classes)
SUPPORTED_SPARKNLP_CLASSIFERS == {"ClassifierDLModel", "BertForSequenceClassification"}

\* The annotators that occur as stages, with their getOutputCol()
Annotators ==
    {[cls |-> "DocumentAssembler", output_col |-> "document"],
     [cls |-> "NerDLModel", output_col |-> "ner"],
     [cls |-> "ClassifierDLModel", output_col |-> "class"],
     [cls |-> "BertForSequenceClassification", output_col |-> "category"]}

\* The objects drawn as inputs: the class of the object, and the stages of
\* the PipelineModel that it is or wraps.
HandlerInputs(maxStages) ==
    {[type |-> t, stages |-> st] :
        t \in ModelTypes, st \in UNION {[1..n -> Annotators] : n \in 0..maxStages}}

\* is_instance_supported(model_instance) of the text classification handler
is_instance_supported(annotator) == annotator.cls \in SUPPORTED_SPARKNLP_CLASSIFERS

\* `for annotator in model.stages: if self.is_instance_supported(annotator):
\* classifier = annotator; break`, from the stage k on: the stage found, or 0
RECURSIVE FirstSupported(_, _)
FirstSupported(stages, k) ==
    IF k > Len(stages) THEN 0
    ELSE IF is_instance_supported(stages[k]) THEN k
    ELSE FirstSupported(stages, k + 1)

NoHandler == [err |-> "none", output_col |-> ""]

\* __init__ of the first class statement that defines
\* TextClassificationJohnSnowLabsPretrainedModel
FirstDefinition(model) ==
    IF model.type \notin {"PipelineModel", "LightPipeline", "PretrainedPipeline", "NLUPipeline"}
    THEN [err |-> "ValueError", output_col |-> ""]
    ELSE LET classifier == FirstSupported(model.stages, 1)
         IN  IF classifier = 0 THEN [err |-> "ValueError", output_col |-> ""]
             ELSE [err |-> "none", output_col |-> model.stages[classifier].output_col]

\* `for annotator in model.stages: pass` of the second class statement,
\* from the stage k on with classifier_model as it is (0 is None): the loop
\* assigns nothing
RECURSIVE PassLoop(_, _, _)
PassLoop(stages, k, classifier_model) ==
    IF k > Len(stages) THEN classifier_model
    ELSE PassLoop(stages, k + 1, classifier_model)

\* __init__ of the second class statement of that name
SecondDefinition(model) ==
    IF model.type \notin {"PretrainedPipeline", "LightPipeline", "NLUPipeline"}
    THEN [err |-> "ValueError", output_col |-> ""]
    ELSE LET classifier_model == PassLoop(model.stages, 1, 0)
         IN  IF classifier_model = 0 THEN [err |-> "ValueError", output_col |-> ""]
             ELSE [err |-> "none", output_col |-> model.stages[classifier_model].output_col]

\* the class statements of the name in the order of the module; the name is
\* bound to the class of the last one
ClassStatements == <<"first", "second">>

TextClassificationJohnSnowLabsPretrainedModel(model) ==
    IF ClassStatements[Len(ClassStatements)] = "first"
    THEN FirstDefinition(model)
    ELSE SecondDefinition(model)

HandlerInit ==
    /\ handler_model \in HandlerInputs(MaxStages)
    /\ handler_pc = "input"
    /\ handler = NoHandler

\* TextClassificationJohnSnowLabsPretrainedModel(model=handler_model)
Construct ==
    /\ handler_pc = "input"
    /\ handler' = TextClassificationJohnSnowLabsPretrainedModel(handler_model)
    /\ handler_pc' = "done"
    /\ UNCHANGED handler_model

HandlerIdle ==
    /\ handler_model = [type |-> "", stages |-> <<>>]
    /\ handler_pc = "idle"
    /\ handler = NoHandler

(***************************************************************************)
(* Specifications                                                          *)
(***************************************************************************)
InitTerm == TermInit /\ CodecIdle /\ AccIdle /\ OrchIdle /\ HandlerIdle
NextTerm == CallCreateTerminology /\ UNCHANGED <<codecVars, accVars, orchVars, handlerVars>>
SpecTerm == InitTerm /\ [][NextTerm]_vars

InitCodec == CodecInit /\ TermIdle /\ AccIdle /\ OrchIdle /\ HandlerIdle
NextCodec ==
    \/ LoadData /\ UNCHANGED <<termVars, accVars, orchVars, handlerVars>>
    \/ ExportData /\ UNCHANGED <<termVars, accVars, orchVars, handlerVars>>
    \/ ReloadData /\ UNCHANGED <<termVars, accVars, orchVars, handlerVars>>
    \/ PerturbData /\ UNCHANGED <<termVars, accVars, orchVars, handlerVars>>
    \/ ExportPerturbed /\ UNCHANGED <<termVars, accVars, orchVars, handlerVars>>
SpecCodec == InitCodec /\ [][NextCodec]_vars

InitAcc == AccInit /\ TermIdle /\ CodecIdle /\ OrchIdle /\ HandlerIdle
NextAcc ==
    \/ PerClassTransformCall /\ UNCHANGED <<termVars, codecVars, orchVars, handlerVars>>
    \/ AggregateTransformCall /\ UNCHANGED <<termVars, codecVars, orchVars, handlerVars>>
    \/ PerClassRunCall /\ UNCHANGED <<termVars, codecVars, orchVars, handlerVars>>
    \/ AggregateRunCall /\ UNCHANGED <<termVars, codecVars, orchVars, handlerVars>>
SpecAcc == InitAcc /\ [][NextAcc]_vars

InitOrch == OrchInit /\ TermIdle /\ CodecIdle /\ HandlerIdle
NextOrch ==
    \/ ValidateOk /\ UNCHANGED <<termVars, codecVars, handlerVars>>
    \/ ValidateFail /\ UNCHANGED <<termVars, codecVars, handlerVars>>
    \/ TransformAll /\ UNCHANGED <<termVars, codecVars, handlerVars>>
    \/ AsyncRun /\ UNCHANGED <<termVars, codecVars, handlerVars>>
    \/ RunTask /\ UNCHANGED <<termVars, codecVars, handlerVars>>
    \/ Aggregate /\ UNCHANGED <<termVars, codecVars, handlerVars>>
    \/ ReportOut /\ UNCHANGED <<termVars, codecVars, handlerVars>>
SpecOrch == InitOrch /\ [][NextOrch]_vars

InitHandler == HandlerInit /\ TermIdle /\ CodecIdle /\ AccIdle /\ OrchIdle
NextHandler == Construct /\ UNCHANGED <<termVars, codecVars, accVars, orchVars>>
SpecHandler == InitHandler /\ [][NextHandler]_vars

(***************************************************************************)
(* Terminology claims                                                      *)
(***************************************************************************)
\* The last token of the chunk that the B-X label at row.label[i] starts:
\* the B-X token and the contiguous I-X tokens of the same row after it.
RECURSIVE ChunkEnd(_, _, _)
ChunkEnd(row, i, j) ==
    IF j < Len(row.label) /\ row.label[j + 1] = [tag |-> "I", type |-> row.label[i].type]
    THEN ChunkEnd(row, i, j + 1)
    ELSE j

ChunkPhrase(row, i) == Join(SubSeq(row.text, i, ChunkEnd(row, i, i)))

Phrases(terminology, x) ==
    IF x \in DOMAIN terminology
    THEN {terminology[x][k] : k \in 1..Len(terminology[x])}
    ELSE {}

\* The row of the example of the specification.
ExampleRow ==
    [text  |-> <<"New", "York", "is", "Paris">>,
     label |-> <<[tag |-> "B", type |-> "PER"], [tag |-> "I", type |-> "PER"],
                 OLabel, [tag |-> "B", type |-> "LOC"]>>]

\* C1 (as claimed): once create_terminology has returned, every chunk of the
\* corpus that a B-X label starts is listed under X in the returned
\* terminology, also a chunk that is still open when its sentence or the
\* corpus ends.
C1_EveryChunkCommitted ==
    (term_pc = "done" /\ term_result.err = "none") =>
        \A r \in 1..Len(ner_data) : \A i \in 1..Len(ner_data[r].label) :
            ner_data[r].label[i].tag = "B" =>
                ChunkPhrase(ner_data[r], i)
                    \in Phrases(term_result.terminology, ner_data[r].label[i].type)

(***************************************************************************)
(* Codec claims                                                            *)
(***************************************************************************)
\* the (word, pos_tag, chunk_tag, entity) tuples of a list of Samples in
\* order, each with the header line of its document
RECURSIVE Tuples(_)
Tuples(items) ==
    IF Len(items) = 0 THEN <<>>
    ELSE LET predictions == items[1].expected_results.predictions
         IN  [k \in 1..Len(predictions) |->
                 <<predictions[k].span.word, predictions[k].pos_tag, predictions[k].chunk_tag,
                   predictions[k].entity, predictions[k].doc_name>>]
             \o Tuples(Tail(items))

\* C2 (as claimed): when a corpus that load_data returned has been exported
\* and the exported file loaded again, the reload succeeds and gives the same
\* ordered (word, pos_tag, chunk_tag, entity) tuples under the same document
\* headers; no token is lost or replaced by the header.
C2_RoundTrip ==
    codec_pc = "reloaded" =>
        /\ reloaded.err = "none"
        /\ Tuples(reloaded.data) = Tuples(data.data)

(***************************************************************************)
(* Accuracy claims                                                         *)
(***************************************************************************)
\* the Samples that the latest transform returned
Batch == SubSeq(samples, Len(samples) - last.n + 1, Len(samples))

CountCase(batch, l) == Cardinality({k \in 1..Len(batch) : batch[k].test_case = l})

AfterPerClassTransform == last.op = "transform" /\ test_class \in PerClassTests
AfterAggregateTransform == last.op = "transform" /\ test_class \in AggregateTests
AfterPerClassRun == last.op = "run" /\ test_class \in PerClassTests
AfterAggregateRun == last.op = "run" /\ test_class \in AggregateTests

\* C3 (as claimed): the transform of a per-class test with a mapping
\* min_score returns exactly one Sample for every label of the mapping and
\* none for any other label, each with the mapped value.
C3_OnePerMappingLabel ==
    (AfterPerClassTransform /\ params.min_score.kind = "dict") =>
        /\ last.err = "none"
        /\ \A l \in Labels :
              CountCase(Batch, l) = IF l \in DOMAIN params.min_score.m THEN 1 ELSE 0
        /\ \A k \in 1..Len(Batch) :
              /\ Batch[k].test_case \in DOMAIN params.min_score.m
              /\ Batch[k].expected_results.min_score
                    = Float(params.min_score.m[Batch[k].test_case])

\* C3 (amended): the transform of a per-class test with a mapping min_score
\* returns exactly one Sample for every label of the mapping that occurs in
\* the true labels, with the mapped value, and no Sample for a label that is
\* absent from the mapping or from the true labels.
C3_OnePerObservedMappingLabel ==
    (AfterPerClassTransform /\ params.min_score.kind = "dict") =>
        /\ last.err = "none"
        /\ \A l \in Labels :
              CountCase(Batch, l)
                  = IF l \in (DOMAIN params.min_score.m) \cap SetOf(true_labels) THEN 1 ELSE 0
        /\ \A k \in 1..Len(Batch) :
              /\ Batch[k].test_case \in (DOMAIN params.min_score.m) \cap SetOf(true_labels)
              /\ Batch[k].test_type = TestTypeOf(test_class)
              /\ Batch[k].expected_results.min_score
                    = Float(params.min_score.m[Batch[k].test_case])

\* a transform has returned a Sample for the one observed label of a mapping
\* that also names an unobserved label
C3_Witness ==
    /\ AfterPerClassTransform
    /\ params.min_score.kind = "dict"
    /\ last.n = 1
    /\ (DOMAIN params.min_score.m) \ SetOf(true_labels) # {}

\* the threshold Samples of a list as a set of (test_type, test_case,
\* expected min_score)
Thresholds(batch) ==
    {<<batch[k].test_type, batch[k].test_case, batch[k].expected_results.min_score>> :
        k \in 1..Len(batch)}

\* C4: the transform of a per-class test with the float min_score s returns
\* the same threshold Samples (test_type, test_case, expected min_score), and
\* as many, as it returns with the mapping that gives s to every label of the
\* true labels.
C4_ThresholdEquivalence ==
    (AfterPerClassTransform /\ params.min_score.kind = "float") =>
        LET L == SetOf(true_labels)
            mapped == transform(test_class, true_labels,
                                Dict([l \in L |-> params.min_score.v]),
                                CHOOSE o \in Orders(L) : TRUE)
        IN  /\ last.err = mapped.err
            /\ Thresholds(Batch) = Thresholds(mapped.ret)
            /\ last.n = Len(mapped.ret)
            /\ Cardinality(Thresholds(Batch)) = last.n

C4_Witness ==
    /\ AfterPerClassTransform
    /\ params.min_score.kind = "float"
    /\ SetOf(true_labels) = Labels
    /\ last.n = Cardinality(Labels)

\* C5 (as claimed): a transform given a malformed min_score raises an error
\* and returns no Sample.
C5_MalformedRejected ==
    (last.op = "transform" /\ params.min_score \in Malformed) =>
        (last.err # "none" /\ last.n = 0)

\* C6: a step of the run of a per-class test returns normally, leaves every
\* Sample of its list whose label is not in the report of y_true / y_pred as
\* it was (pending, without actual_results), and marks every other Sample of
\* the list done with the metric of its label.
C6_SoftSkipStep ==
    AfterPerClassRun' =>
        /\ last'.err = "none"
        /\ Len(samples') = Len(samples)
        /\ \A i \in 1..Len(samples) :
                  IF samples[i].test_case \in SetOf(y_true) \cup SetOf(y_pred)
                  THEN /\ samples'[i].state = "done"
                       /\ samples'[i].actual_results
                             = MinScoreOutput(ReportValue(
                                    classification_report(y_true, y_pred)[samples[i].test_case],
                                    MetricOf(test_class)))
                  ELSE /\ samples'[i] = samples[i]
                       /\ samples'[i].state = "pending"
                       /\ samples'[i].actual_results = Absent

C6_SoftSkip == [][C6_SoftSkipStep]_vars

\* a per-class run has skipped one Sample of its list and marked another done
C6_Witness ==
    /\ AfterPerClassRun
    /\ \E i, j \in 1..Len(samples) :
          /\ samples[i].test_case \notin SetOf(y_true) \cup SetOf(y_pred)
          /\ samples[i].state = "pending"
          /\ samples[j].state = "done"

\* C7: in every reachable state every Sample has actual_results set exactly
\* when its state is not pending.
C7_ActualIffNotPending ==
    \A i \in 1..Len(samples) :
        (samples[i].actual_results # Absent) <=> (samples[i].state # "pending")

\* after a run, one Sample is done and another one is still pending
C7_Witness ==
    /\ last.op = "run"
    /\ \E i, j \in 1..Len(samples) :
          /\ samples[i].state = "done" /\ samples[i].actual_results # Absent
          /\ samples[j].state = "pending"

\* the fields of a Sample that run must not touch
Frame(sample) ==
    <<sample.original, sample.test_case, sample.category, sample.test_type,
      sample.expected_results>>

\* C8: a run step changes only actual_results and state of the Samples and
\* leaves y_true and y_pred as they were; a transform step leaves every
\* Sample that existed before it unchanged.
C8_FrameStep ==
    /\ y_true' = y_true
    /\ y_pred' = y_pred
    /\ Len(samples') >= Len(samples)
    /\ (last'.op = "run" =>
            /\ Len(samples') = Len(samples)
            /\ \A i \in 1..Len(samples) : Frame(samples'[i]) = Frame(samples[i]))
    /\ (last'.op = "transform" =>
            \A i \in 1..Len(samples) : samples'[i] = samples[i])

C8_Frame == [][C8_FrameStep]_vars

\* a transform has added a Sample to Samples that a run had marked done
C8_Witness ==
    /\ last.op = "transform"
    /\ last.n >= 1
    /\ Len(samples) > last.n
    /\ \E i \in 1..(Len(samples) - last.n) : samples[i].state = "done"

\* C9 (as claimed): every Sample that a transform has emitted carries the
\* alias_name of its test class as test_type.
C9_TestTypeIsAlias ==
    \A i \in 1..Len(samples) : samples[i].test_type = alias_name[test_class]

\* C10: the transform of an aggregate test returns exactly one Sample, whose
\* expected min_score is params["min_score"]; after the run of an aggregate
\* test every Sample of its list is done, all with the aggregate F1 of
\* y_true / y_pred as actual min_score.
C10_Aggregate ==
    /\ AfterAggregateTransform =>
          /\ last.err = "none"
          /\ last.n = 1
          /\ Batch[1].expected_results.min_score = params.min_score
          /\ Batch[1].test_case = AverageOf(test_class)
    /\ AfterAggregateRun =>
          \A i \in 1..Len(samples) :
              /\ samples[i].state = "done"
              /\ samples[i].actual_results
                    = MinScoreOutput(f1_score(y_true, y_pred, AverageOf(test_class)))

\* an aggregate run on a list of two Samples
C10_Witness ==
    /\ AfterAggregateRun
    /\ last.n = 2
    /\ \A i \in 1..Len(samples) : samples[i].state = "done"

(***************************************************************************)
(* Orchestration claims                                                    *)
(***************************************************************************)
\* the request names a test that is not registered, or an output format that
\* is not one of the enumerated tokens
UnknownRequest ==
    \/ \E name \in requested : name \notin Registry
    \/ output_format \notin OutputFormats

C11_NoWork ==
    UnknownRequest =>
        /\ orch_state \in {"Configured", "Failed"}
        /\ orch_state = "Failed" => orch_err = "ValueError"
        /\ model_calls = 0
        /\ tasks = <<>>
        /\ orch_samples = <<>>
        /\ returned = Absent

C11_RaiseStep ==
    UnknownRequest =>
        /\ orch_state = "Configured"
        /\ orch_state' = "Failed"
        /\ orch_err' = "ValueError"

\* C11: a run requested with an unknown test name or an unknown output
\* format makes no model call, schedules no run task and returns no report
\* in any state, and its only step is the one that raises ValueError.
C11_FailFast == [](C11_NoWork) /\ [][C11_RaiseStep]_vars

\* a run with an unknown test name, and one with an unknown output format
\* among registered names, has ended in ValueError
C11_Witness ==
    /\ orch_state = "Failed"
    /\ orch_err = "ValueError"
    /\ \/ "invalid" \in requested /\ output_format \in OutputFormats
       \/ requested \subseteq Registry /\ output_format = "invalid"
    /\ model_calls = 0

ReportKeys == {"metrics", "comparison_df", "test_details"}

PendingLists ==
    [name \in DOMAIN orch_samples |->
        [i \in 1..Len(orch_samples[name]) |->
            [orch_samples[name][i] EXCEPT !.actual_results = Absent, !.state = "pending"]]]

\* the run phases of a and then of b, one after the other
Sequential(a, b) == AfterTask(b, AfterTask(a, PendingLists))

\* C13: when the run tasks of two different accuracy tests have both run,
\* in whichever order the event loop took them, the Samples of both tests
\* are those of running the two run phases one after the other, in the one
\* order and in the other.
C13_ConcurrentDeterminism ==
    \A a, b \in DOMAIN tasks :
        (a # b /\ IsAccuracy(a) /\ IsAccuracy(b) /\ tasks[a] = "done" /\ tasks[b] = "done") =>
            /\ orch_samples[a] = Sequential(a, b)[a]
            /\ orch_samples[b] = Sequential(a, b)[b]
            /\ orch_samples[a] = Sequential(b, a)[a]
            /\ orch_samples[b] = Sequential(b, a)[b]

\* the task created second has run before the task created first, and both
\* have set the actual_results of their Samples
C13_Witness ==
    /\ run_order = <<"min_micro_f1_score", "min_precision_score">>
    /\ y_true # y_pred
    /\ \E i \in 1..Len(orch_samples["min_precision_score"]) :
          orch_samples["min_precision_score"][i].state = "done"
    /\ orch_samples["min_micro_f1_score"][1].state = "done"

C14_Barrier ==
    /\ DOMAIN tasks \subseteq requested
    /\ DOMAIN tasks # {} =>
          /\ orch_state \in {"Running", "Aggregated", "Reported"}
          /\ ~UnknownRequest
          /\ DOMAIN orch_samples = requested
    /\ orch_state \in {"Aggregated", "Reported"} =>
          /\ DOMAIN tasks = requested
          /\ \A name \in requested :
                /\ tasks[name] = "done"
                /\ orch_samples[name] = TestRun(name, PendingLists[name])
          /\ aggregated = Metrics(requested, orch_samples)

C14_Step ==
    /\ DOMAIN tasks \subseteq DOMAIN tasks'
    /\ Cardinality(DOMAIN tasks') <= Cardinality(DOMAIN tasks) + 1
    /\ \A name \in (DOMAIN tasks') \ DOMAIN tasks :
          /\ tasks'[name] = "scheduled"
          /\ orch_samples'[name] = orch_samples[name]
          /\ orch_state' = "Running"
    /\ orch_state' = "Aggregated" /\ orch_state # "Aggregated" =>
          \A name \in requested : name \in DOMAIN tasks /\ tasks[name] = "done"

\* C14: run tasks exist only for resolved tests, at most one per test, and
\* only once validation and transform are done; async_run leaves the task it
\* creates scheduled, with the Samples of the test unwritten; aggregation
\* starts only when a task has been created for every resolved test and all
\* of them have run, so that it reads the Samples as the runs have left them.
C14_FanOutFanIn == [](C14_Barrier) /\ [][C14_Step]_vars

\* aggregation after the join of three tasks, of which the one created last
\* did not run last
C14_Witness ==
    /\ orch_state = "Aggregated"
    /\ Cardinality(DOMAIN tasks) = 3
    /\ Len(run_order) = 2
    /\ run_order[1] = "min_micro_f1_score"
    /\ model_calls = 1

(***************************************************************************)
(* Terminology claims: the committed phrases, and errors                   *)
(***************************************************************************)
\* C15 (as claimed): every phrase that create_terminology lists under an
\* entity type X is the phrase of one chunk of the corpus: the token of a
\* B-X label joined with the tokens of the contiguous I-X labels that follow
\* it in the same row, and nothing else.
C15_PhrasesAreChunks ==
    (term_pc = "done" /\ term_result.err = "none") =>
        \A x \in DOMAIN term_result.terminology :
            \A phrase \in Phrases(term_result.terminology, x) :
                \E r \in 1..Len(ner_data) : \E i \in 1..Len(ner_data[r].label) :
                    /\ ner_data[r].label[i] = [tag |-> "B", type |-> x]
                    /\ phrase = ChunkPhrase(ner_data[r], i)

(***************************************************************************)
(* Codec claims: spans, documents, perturbed export                        *)
(***************************************************************************)
\* the Samples among the elements of a list that load_data returned
SamplesOf(items) == {k \in 1..Len(items) : items[k].is_sample}

\* original[p.start : p.end] == p.word for every prediction p of the Sample,
\* inside the text, and one character between consecutive spans
SpansLocateWords(sample) ==
    LET original == Join(sample.original)
        preds == sample.expected_results.predictions
    IN  \A k \in 1..Len(preds) :
            /\ 0 <= preds[k].span.start
            /\ preds[k].span.start < preds[k].span.end
            /\ preds[k].span.end <= Len(original)
            /\ SubSeq(original, preds[k].span.start + 1, preds[k].span.end) = preds[k].span.word
            /\ k > 1 => preds[k].span.start = preds[k - 1].span.end + 1

\* C16: in every Sample that load_data returns, for the file and for the
\* exported file, the span of each prediction locates its word in the text
\* of the Sample, and consecutive spans are one character apart.
C16_SpanOffsets ==
    /\ \A k \in SamplesOf(data.data) : SpansLocateWords(data.data[k])
    /\ \A k \in SamplesOf(reloaded.data) : SpansLocateWords(reloaded.data[k])

\* load_data has returned a Sample of two tokens, the second at offset 4
C16_Witness ==
    /\ codec_pc = "loaded"
    /\ data.err = "none"
    /\ \E k \in SamplesOf(data.data) :
          /\ Len(data.data[k].expected_results.predictions) = 2
          /\ data.data[k].expected_results.predictions[2].span.start = 4
          /\ data.data[k].expected_results.predictions[2].span.end = 8

\* The sentences of a file as it reads: a sentence is a run of token lines
\* that a blank line, a header line or the end of the file ends, and its
\* document header is the last header line before it ("" when there is none).
RECURSIVE FileSentences(_, _, _)
FileSentences(lines, header, cur) ==
    LET closed == IF Len(cur) = 0 THEN <<>> ELSE <<[words |-> cur, doc_name |-> header]>>
    IN  IF Len(lines) = 0 THEN closed
        ELSE IF lines[1].kind = "hdr"
        THEN closed \o FileSentences(Tail(lines), lines[1].word, <<>>)
        ELSE IF lines[1].kind = "blank"
        THEN closed \o FileSentences(Tail(lines), header, <<>>)
        ELSE FileSentences(Tail(lines), header, Append(cur, lines[1].word))

\* C17 (as claimed): the list that load_data returns has one Sample for each
\* sentence of the file, in file order and for any number of documents;
\* every element is a Sample, and every prediction carries as doc_name the
\* header line before its document.
C17_OneSamplePerSentence ==
    (codec_pc # "file" /\ data.err = "none") =>
        LET sentences == FileSentences(file_content, "", <<>>)
        IN  /\ Len(data.data) = Len(sentences)
            /\ \A k \in 1..Len(data.data) :
                  /\ data.data[k].is_sample
                  /\ data.data[k].original = sentences[k].words
                  /\ \A j \in 1..Len(data.data[k].expected_results.predictions) :
                        data.data[k].expected_results.predictions[j].doc_name
                            = sentences[k].doc_name

\* C18 (as claimed): create_terminology returns normally for every corpus
\* with one label of B-X, I-X, O per token, also when an I- label follows an
\* O label or is the first label of the corpus.
C18_ReturnsNormally ==
    term_pc = "done" => term_result.err = "none"

\* the token lines that the export of perturbed Samples is to write: the
\* test_case token at position k with the annotation of predictions[k]
RECURSIVE PerturbedTokens(_)
PerturbedTokens(items) ==
    IF Len(items) = 0 THEN <<>>
    ELSE LET predictions == items[1].expected_results.predictions
         IN  [k \in 1..Len(items[1].test_case) |->
                 TokenLine(items[1].test_case[k], predictions[k].pos_tag,
                           predictions[k].chunk_tag, predictions[k].entity)]
             \o PerturbedTokens(Tail(items))

\* the token lines of a text
RECURSIVE TokenLinesOf(_)
TokenLinesOf(lines) ==
    IF Len(lines) = 0 THEN <<>>
    ELSE (IF lines[1].kind = "tok" THEN <<lines[1]>> ELSE <<>>) \o TokenLinesOf(Tail(lines))

\* C19 (as claimed): the export of Samples whose test_case is a case rewrite
\* of original completes without error, and the token lines it writes are,
\* Sample after Sample, the test_case tokens, the one at position k with the
\* pos_tag, chunk_tag and entity of predictions[k].
C19_PerturbedExport ==
    codec_pc = "perturbed_exported" =>
        /\ exported.err = "none"
        /\ TokenLinesOf(exported.text) = PerturbedTokens(data.data)

(***************************************************************************)
(* Model handler claims                                                    *)
(***************************************************************************)
\* the stages of a pipeline that are supported classifiers
ClassifierStages(model) ==
    {k \in 1..Len(model.stages) : model.stages[k].cls \in SUPPORTED_SPARKNLP_CLASSIFERS}

\* C20 (as claimed): the construction of the text classification handler
\* with a pipeline object that has a supported classifier among its stages
\* succeeds and sets output_col to the output column of the first such
\* stage; it raises ValueError only for an object that is no pipeline or a
\* pipeline without a supported classifier.
C20_ConstructorSucceeds ==
    handler_pc = "done" =>
        IF handler_model.type \in PipelineTypes /\ ClassifierStages(handler_model) # {}
        THEN /\ handler.err = "none"
             /\ \E k \in ClassifierStages(handler_model) :
                   /\ \A j \in ClassifierStages(handler_model) : k <= j
                   /\ handler.output_col = handler_model.stages[k].output_col
        ELSE handler.err = "ValueError"

====
